---- MODULE Spec2Model ----
(***************************************************************************)
(* Model of the VPP dispatch core (src/src/vpp.py): the four per-priority  *)
(* asyncio queues, the four priority_processor consumer tasks, the greedy  *)
(* allocate / rollback / release engine over the DER table, and the        *)
(* cancellation of the processing loop (src/run_experiments.py).           *)
(*                                                                         *)
(* Tasks are asyncio coroutines on one event loop: a step of the model is  *)
(* the code a task runs between two suspension points (await).             *)
(* asyncio.CancelledError is a BaseException (Python >= 3.8), so neither   *)
(* `except Exception` handler of vpp.py catches it.                        *)
(* Capacities and requirements are floats in the code; the model uses      *)
(* small integers.                                                         *)
(*                                                                         *)
(* Specifications: Spec (the event loop), FairSpec (Spec under fair        *)
(* scheduling), EngineSpec (direct calls of the engine), ThreadSpec (the   *)
(* engine run by preemptible threads), ScenarioSpec (the event loop on a   *)
(* fleet of capacities 100 and 50), InvalidSpec (negative requirements)    *)
(* and ReplenishSpec (the event loop with the passing of time).            *)
(***************************************************************************)
EXTENDS Integers, Sequences, FiniteSets, TLC

\* Number of members of EventPriority (CRITICAL = 1 .. LOW = 4).
NumPriorities == 4

\* Bounds of the model.
NumDers == 2
DerCapacity == 2
MaxEvents == 2
MaxReq == 3
MaxTs == 2
MaxClock == 1

Priorities == 1..NumPriorities
DerIds == 1..NumDers
EventIds == 1..MaxEvents

VARIABLES
  ders,                \* DER id -> available_capacity
  event_queues,        \* priority -> heap array of <<timestamp, event>>
  unfinished_tasks,    \* priority -> Queue._unfinished_tasks
  pc,                  \* priority -> position of that priority_processor
  cur,                 \* priority -> event held by the consumer (NoEvent if none)
  allocations,         \* priority -> local `allocations` of the running process_event
  available_ders,      \* priority -> candidate list handed to _allocate_resources by a
                       \* direct call of the engine (in process_event the list is
                       \* built and consumed inside one step, and is not kept)
  performance_metrics, \* the metrics lists (lengths where the values are times)
  next_id,             \* id of the next event a producer submits
  dequeued,            \* history: event id -> number of times it left a queue
  allocated,           \* history: event id -> its allocation succeeded
  exec_failed,         \* history: event id -> _execute_event returned False
  released,            \* history: event id -> calls of _release_resources with its record
  outstanding,         \* history: event id -> amounts deducted for it and not credited back
  resolved,            \* history: event id -> the _record_metrics calls made for it
  deq_order,           \* history: priority -> ids in the order they were dequeued
  capacity,            \* DER id -> capacity (set at construction, never assigned)
  status,              \* DER id -> status (set at construction, never assigned)
  frame,               \* priority -> locals of an engine call that runs as a thread
  clock                \* periods of the event loop's time that have passed

vars == <<ders, event_queues, unfinished_tasks, pc, cur, allocations, available_ders,
          performance_metrics, next_id, dequeued, allocated, exec_failed,
          released, outstanding, resolved, deq_order, capacity, status, frame, clock>>

history == <<dequeued, allocated, exec_failed, released, outstanding, resolved, deq_order>>

Min(a, b) == IF a <= b THEN a ELSE b

\* DER.capacity.
Capacity(der) == capacity[der]

\* The locals of an engine call that is not running.
NoFrame == [i |-> 0, needed |-> 0, allocation |-> 0, read |-> 0]

NoEvent == [id |-> 0, priority |-> 0, timestamp |-> 0, resource_requirement |-> 0]

RECURSIVE SumAmounts(_)
SumAmounts(allocs) ==
  IF allocs = <<>> THEN 0 ELSE allocs[1][2] + SumAmounts(Tail(allocs))

RECURSIVE AmountOn(_, _)
\* Sum of the amounts of a record that were taken from unit der.
AmountOn(allocs, der) ==
  IF allocs = <<>> THEN 0
  ELSE (IF allocs[1][1] = der THEN allocs[1][2] ELSE 0) + AmountOn(Tail(allocs), der)

RECURSIVE SumOver(_, _)
SumOver(f, S) ==
  IF S = {} THEN 0
  ELSE LET x == CHOOSE y \in S : TRUE IN f[x] + SumOver(f, S \ {x})

(***************************************************************************)
(* Event ordering and the queue's heap (asyncio.PriorityQueue is a heapq   *)
(* list of the tuples put into it).                                        *)
(***************************************************************************)

\* Event.__lt__ of @dataclass(order=True): only `priority` is compared.
EventLess(e1, e2) == e1.priority < e2.priority

\* Tuple comparison of the queue entries (timestamp, event).
ItemLess(a, b) == a[1] < b[1] \/ (a[1] = b[1] /\ EventLess(a[2], b[2]))

RECURSIVE SiftDown(_, _, _, _)
\* heapq._siftdown: move newitem from pos towards the root (1-based indices).
SiftDown(heap, startpos, pos, newitem) ==
  IF pos > startpos /\ ItemLess(newitem, heap[pos \div 2])
  THEN SiftDown([heap EXCEPT ![pos] = heap[pos \div 2]], startpos, pos \div 2, newitem)
  ELSE [heap EXCEPT ![pos] = newitem]

RECURSIVE SiftUp(_, _, _)
\* heapq._siftup: bubble the smaller child up to a leaf, then sift newitem down.
SiftUp(heap, pos, newitem) ==
  LET childpos == 2 * pos
      rightpos == childpos + 1
  IN IF childpos <= Len(heap)
     THEN LET c == IF rightpos <= Len(heap) /\ ~ItemLess(heap[childpos], heap[rightpos])
                   THEN rightpos ELSE childpos
          IN SiftUp([heap EXCEPT ![pos] = heap[c]], c, newitem)
     ELSE SiftDown([heap EXCEPT ![pos] = newitem], 1, pos, newitem)

\* heapq.heappush, as Queue.put -> PriorityQueue._put does it.
HeapPush(heap, item) ==
  LET h == Append(heap, item) IN SiftDown(h, 1, Len(h), item)

\* A mutation of the dequeue: the head is returned but stays in the queue.
HeapPopKeep(heap) == [item |-> heap[1], heap |-> heap]

\* heapq.heappop, as Queue.get -> PriorityQueue._get does it.
HeapPop(heap) ==
  LET lastelt == heap[Len(heap)]
      rest == SubSeq(heap, 1, Len(heap) - 1)
  IN IF rest = <<>> THEN [item |-> lastelt, heap |-> rest]
     ELSE [item |-> rest[1], heap |-> SiftUp([rest EXCEPT ![1] = lastelt], 1, lastelt)]

(***************************************************************************)
(* The allocation engine.                                                  *)
(***************************************************************************)

RECURSIVE InsertAsc(_, _, _)
\* A mutation of the sort: `reverse=True` is left out, smallest first.
InsertAsc(sorted, der, d) ==
  IF sorted = <<>> THEN <<der>>
  ELSE IF d[sorted[1]] <= d[der] THEN <<sorted[1]>> \o InsertAsc(Tail(sorted), der, d)
  ELSE <<der>> \o sorted

RECURSIVE InsertDesc(_, _, _)
\* Stable insertion by available capacity, largest first.
InsertDesc(sorted, der, d) ==
  IF sorted = <<>> THEN <<der>>
  ELSE IF d[sorted[1]] >= d[der] THEN <<sorted[1]>> \o InsertDesc(Tail(sorted), der, d)
  ELSE <<der>> \o sorted

RECURSIVE SortedDesc(_, _)
\* sorted(available_ders, key=available_capacity, reverse=True): stable.
SortedDesc(list, d) ==
  IF list = <<>> THEN <<>>
  ELSE InsertDesc(SortedDesc(SubSeq(list, 1, Len(list) - 1), d), list[Len(list)], d)

RECURSIVE Candidates(_, _)
\* The units with available_capacity > 0, in dict (insertion) order from unit i on.
Candidates(d, i) ==
  IF i > NumDers THEN <<>>
  ELSE (IF d[i] > 0 THEN <<i>> ELSE <<>>) \o Candidates(d, i + 1)

TotalAvailable(d) == SumOver(d, DerIds)

\* A mutation of the aggregate check: the requirement is compared with the
\* fleet's total capacity, not with what is available.
FindByCapacity(d, required_capacity) ==
  IF SumOver([der \in DerIds |-> Capacity(der)], DerIds) >= required_capacity
  THEN SortedDesc(Candidates(d, 1), d)
  ELSE <<>>

\* _find_available_resources: the sorted candidates, or [] when the aggregate is short.
FindAvailableResources(d, required_capacity) ==
  IF TotalAvailable(d) >= required_capacity
  THEN SortedDesc(Candidates(d, 1), d)
  ELSE <<>>

\* A mutation of the deduction: the unit's available capacity is ignored.
AllocationAmountNoMin(available_capacity, needed) == needed

\* allocation = min(der.available_capacity, needed)
AllocationAmount(available_capacity, needed) == Min(available_capacity, needed)

RECURSIVE AllocateWalk(_, _, _, _, _)
\* The loop over `ders` of _allocate_resources.
AllocateWalk(d, list, i, needed, allocs) ==
  IF i > Len(list) \/ needed <= 0
  THEN [ders |-> d, needed |-> needed, allocations |-> allocs]
  ELSE LET der == list[i]
           allocation == AllocationAmount(d[der], needed)
       IN IF allocation > 0
          THEN AllocateWalk([d EXCEPT ![der] = @ - allocation], list, i + 1,
                            needed - allocation, Append(allocs, <<der, allocation>>))
          ELSE AllocateWalk(d, list, i + 1, needed, allocs)

\* A mutation of the rollback: nothing is restored.
RollbackNothing(d, allocs) == d

RECURSIVE Rollback(_, _)
\* der.available_capacity += amount for every recorded pair (no clamp).
Rollback(d, allocs) ==
  IF allocs = <<>> THEN d
  ELSE Rollback([d EXCEPT ![allocs[1][1]] = @ + allocs[1][2]], Tail(allocs))

\* _allocate_resources: walk, then roll back when the requirement is not covered.
AllocateResources(d, resource_requirement, list) ==
  LET w == AllocateWalk(d, list, 1, resource_requirement, <<>>)
  IN IF w.needed > 0
     THEN [success |-> FALSE, ders |-> Rollback(w.ders, w.allocations), allocations |-> <<>>]
     ELSE [success |-> TRUE, ders |-> w.ders, allocations |-> w.allocations]

\* A mutation of the release: only the first pair of the record is credited.
ReleaseFirstOnly(d, allocs) ==
  IF allocs = <<>> THEN d
  ELSE [d EXCEPT ![allocs[1][1]] = Min(@ + allocs[1][2], Capacity(allocs[1][1]))]

\* A mutation of the release: nothing is credited.
ReleaseNothing(d, allocs) == d

RECURSIVE ReleaseResources(_, _)
\* _release_resources: credit each amount, clamped to the unit's capacity.
ReleaseResources(d, allocs) ==
  IF allocs = <<>> THEN d
  ELSE ReleaseResources(
         [d EXCEPT ![allocs[1][1]] = Min(@ + allocs[1][2], Capacity(allocs[1][1]))],
         Tail(allocs))

\* used_capacity of _record_metrics: sum of capacity - available_capacity.
UsedCapacity(d) == SumOver([der \in DerIds |-> Capacity(der) - d[der]], DerIds)

\* _log_resource_state: one more entry in resource_state_history.
LogResourceState(pm, n) ==
  [pm EXCEPT !.resource_state_history = @ + n]

\* A mutation of the bookkeeping: a failed event is filed in the lists but is
\* not counted in total_events_processed.
RecordMetricsFailureUncounted(pm, event, success, d) ==
  [pm EXCEPT !.response_times = @ + 1,
             !.success_rates[event.priority] = Append(@, success),
             !.resource_utilization = @ + 1,
             !.processing_times = @ + 1,
             !.total_events_processed = IF success THEN @ + 1 ELSE @]

\* _record_metrics: one entry in each list, under the event's priority.
RecordMetrics(pm, event, success, d) ==
  [pm EXCEPT !.response_times = @ + 1,
             !.success_rates[event.priority] = Append(@, success),
             !.resource_utilization = @ + 1,
             !.processing_times = @ + 1,
             !.total_events_processed = @ + 1]

(***************************************************************************)
(* Initial state: run_experiments builds a fleet of fully available units  *)
(* and a VPPSystem with four empty queues; the processing loop task is     *)
(* created but has not run yet.                                            *)
(***************************************************************************)
Init ==
  /\ capacity = [der \in DerIds |-> DerCapacity]
  /\ ders = [der \in DerIds |-> Capacity(der)]
  /\ event_queues = [p \in Priorities |-> <<>>]
  /\ unfinished_tasks = [p \in Priorities |-> 0]
  /\ pc = [p \in Priorities |-> "new"]
  /\ cur = [p \in Priorities |-> NoEvent]
  /\ allocations = [p \in Priorities |-> <<>>]
  /\ available_ders = [p \in Priorities |-> <<>>]
  /\ performance_metrics =
       [response_times |-> 0,
        resource_utilization |-> 0,
        success_rates |-> [p \in Priorities |-> <<>>],
        processing_times |-> 0,
        total_events_processed |-> 0,
        resource_state_history |-> 0]
  /\ next_id = 1
  /\ dequeued = [id \in EventIds |-> 0]
  /\ allocated = [id \in EventIds |-> FALSE]
  /\ exec_failed = [id \in EventIds |-> FALSE]
  /\ released = [id \in EventIds |-> 0]
  /\ outstanding = [id \in EventIds |-> <<>>]
  /\ resolved = [id \in EventIds |-> <<>>]
  /\ deq_order = [p \in Priorities |-> <<>>]
  /\ status = [der \in DerIds |-> "online"]
  /\ frame = [p \in Priorities |-> NoFrame]
  /\ clock = 0

\* A mutation of the enqueue: the queues are built with maxsize=1, and put waits
\* while the queue of the event's priority is full.
AddEventBounded(priority, timestamp, resource_requirement) ==
  /\ next_id <= MaxEvents
  /\ Len(event_queues[priority]) < 1
  /\ LET event == [id |-> next_id, priority |-> priority, timestamp |-> timestamp,
                   resource_requirement |-> resource_requirement]
     IN event_queues' = [event_queues EXCEPT
                           ![priority] = HeapPush(@, <<event.timestamp, event>>)]
  /\ unfinished_tasks' = [unfinished_tasks EXCEPT ![priority] = @ + 1]
  /\ next_id' = next_id + 1
  /\ UNCHANGED <<capacity, status, frame, clock,
                 available_ders, ders, pc, cur, allocations, performance_metrics, history>>

\* add_event: put (event.timestamp, event) into the queue of the event's priority.
AddEvent(priority, timestamp, resource_requirement) ==
  /\ next_id <= MaxEvents
  /\ LET event == [id |-> next_id, priority |-> priority, timestamp |-> timestamp,
                   resource_requirement |-> resource_requirement]
     IN event_queues' = [event_queues EXCEPT
                           ![priority] = HeapPush(@, <<event.timestamp, event>>)]
  /\ unfinished_tasks' = [unfinished_tasks EXCEPT ![priority] = @ + 1]
  /\ next_id' = next_id + 1
  /\ UNCHANGED <<capacity, status, frame, clock,
                 available_ders, ders, pc, cur, allocations, performance_metrics, history>>

\* process_events_loop: gather starts one priority_processor per priority.
ProcessEventsLoop ==
  /\ \A p \in Priorities : pc[p] = "new"
  /\ pc' = [p \in Priorities |-> "ready"]
  /\ UNCHANGED <<capacity, status, frame, clock,
                 available_ders, ders, event_queues, unfinished_tasks, cur, allocations,
                 performance_metrics, next_id, history>>

\* A mutation of the round: the empty-queue sleep is left out, and the consumer
\* goes back to the head of its loop at once.
RoundSpin(p) ==
  IF event_queues[p] = <<>>
  THEN /\ pc' = [pc EXCEPT ![p] = "ready"]
       /\ UNCHANGED <<event_queues, cur, dequeued, deq_order>>
  ELSE LET got == HeapPop(event_queues[p])
           event == got.item[2]
       IN /\ event_queues' = [event_queues EXCEPT ![p] = got.heap]
          /\ cur' = [cur EXCEPT ![p] = event]
          /\ dequeued' = [dequeued EXCEPT ![event.id] = @ + 1]
          /\ deq_order' = [deq_order EXCEPT ![p] = Append(@, event.id)]
          /\ pc' = [pc EXCEPT ![p] = "created"]

\* A mutation of the round: the four consumers share one lock on the fleet, and
\* a consumer does not dequeue while another one is in its dwell.
RoundSerial(p) ==
  IF event_queues[p] = <<>> \/ \E q \in Priorities : q # p /\ pc[q] = "executing"
  THEN /\ pc' = [pc EXCEPT ![p] = "sleeping"]
       /\ UNCHANGED <<event_queues, cur, dequeued, deq_order>>
  ELSE LET got == HeapPop(event_queues[p])
           event == got.item[2]
       IN /\ event_queues' = [event_queues EXCEPT ![p] = got.heap]
          /\ cur' = [cur EXCEPT ![p] = event]
          /\ dequeued' = [dequeued EXCEPT ![event.id] = @ + 1]
          /\ deq_order' = [deq_order EXCEPT ![p] = Append(@, event.id)]
          /\ pc' = [pc EXCEPT ![p] = "created"]

\* One round of priority_processor from line 70 to its next suspension: with the
\* queue empty it suspends in asyncio.sleep(0.1); otherwise it gets the head of
\* the queue, creates the process_event task and awaits it.
Round(p) ==
  IF event_queues[p] = <<>>
  THEN /\ pc' = [pc EXCEPT ![p] = "sleeping"]
       /\ UNCHANGED <<event_queues, cur, dequeued, deq_order>>
  ELSE LET got == HeapPop(event_queues[p])
           event == got.item[2]
       IN /\ event_queues' = [event_queues EXCEPT ![p] = got.heap]
          /\ cur' = [cur EXCEPT ![p] = event]
          /\ dequeued' = [dequeued EXCEPT ![event.id] = @ + 1]
          /\ deq_order' = [deq_order EXCEPT ![p] = Append(@, event.id)]
          /\ pc' = [pc EXCEPT ![p] = "created"]

\* priority_processor: the first round of the task gather started.
FirstRound(p) ==
  /\ pc[p] = "ready"
  /\ Round(p)
  /\ UNCHANGED <<capacity, status, frame, clock,
                 available_ders, ders, unfinished_tasks, allocations, performance_metrics, next_id,
                 allocated, exec_failed, released, outstanding, resolved>>

\* priority_processor: the empty-queue sleep is over; `continue` and check again.
WakeRound(p) ==
  /\ pc[p] = "sleeping"
  /\ Round(p)
  /\ UNCHANGED <<capacity, status, frame, clock,
                 available_ders, ders, unfinished_tasks, allocations, performance_metrics, next_id,
                 allocated, exec_failed, released, outstanding, resolved>>

\* A mutation of the failure path: the event that could not be allocated is
\* recorded and put back into its queue, to be tried again.
ProcessFailedRequeue(p) ==
  /\ pc[p] = "created"
  /\ LET list == FindAvailableResources(ders, cur[p].resource_requirement)
         r == AllocateResources(ders, cur[p].resource_requirement, list)
         after == IF list = <<>> THEN ders ELSE r.ders
     IN /\ list = <<>> \/ ~r.success
        /\ ders' = after
        /\ performance_metrics' = RecordMetrics(performance_metrics, cur[p], FALSE, after)
        /\ resolved' = [resolved EXCEPT ![cur[p].id] =
                          Append(@, [success |-> FALSE, used |-> UsedCapacity(after)])]
  /\ event_queues' = [event_queues EXCEPT
                        ![p] = HeapPush(@, <<cur[p].timestamp, cur[p]>>)]
  /\ pc' = [pc EXCEPT ![p] = "returned"]
  /\ UNCHANGED <<capacity, status, frame, clock,
                 available_ders, unfinished_tasks, cur, allocations, next_id,
                 dequeued, allocated, exec_failed, released, outstanding, deq_order>>

\* A mutation of the failure path: an event that cannot be allocated takes back
\* the capacity held by a dwelling event of a lower priority and tries again.
ProcessFailedPreempt(p) ==
  /\ pc[p] = "created"
  /\ LET list == FindAvailableResources(ders, cur[p].resource_requirement)
         r == AllocateResources(ders, cur[p].resource_requirement, list)
         after == IF list = <<>> THEN ders ELSE r.ders
         victims == {q \in Priorities : q > p /\ pc[q] = "executing" /\ allocations[q] # <<>>}
     IN /\ list = <<>> \/ ~r.success
        /\ IF victims # {}
           THEN LET q == CHOOSE v \in victims : TRUE
                IN /\ ders' = ReleaseResources(after, allocations[q])
                   /\ allocations' = [allocations EXCEPT ![q] = <<>>]
                   /\ outstanding' = [outstanding EXCEPT ![cur[q].id] = <<>>]
                   /\ UNCHANGED <<pc, performance_metrics, resolved>>
           ELSE /\ ders' = after
                /\ performance_metrics' =
                     RecordMetrics(performance_metrics, cur[p], FALSE, after)
                /\ resolved' = [resolved EXCEPT ![cur[p].id] =
                     Append(@, [success |-> FALSE, used |-> UsedCapacity(after)])]
                /\ pc' = [pc EXCEPT ![p] = "returned"]
                /\ UNCHANGED <<allocations, outstanding>>
  /\ UNCHANGED <<capacity, status, frame, clock,
                 available_ders, event_queues, unfinished_tasks, cur, next_id,
                 dequeued, allocated, exec_failed, released, deq_order>>

\* process_event up to `return False` at line 96 (no candidates: the aggregate
\* check failed) or at line 102 (the walk was rolled back): the failure is recorded.
ProcessFailed(p) ==
  /\ pc[p] = "created"
  /\ LET list == FindAvailableResources(ders, cur[p].resource_requirement)
         r == AllocateResources(ders, cur[p].resource_requirement, list)
         after == IF list = <<>> THEN ders ELSE r.ders
     IN /\ list = <<>> \/ ~r.success
        /\ ders' = after
        /\ performance_metrics' = RecordMetrics(performance_metrics, cur[p], FALSE, after)
        /\ resolved' = [resolved EXCEPT ![cur[p].id] =
                          Append(@, [success |-> FALSE, used |-> UsedCapacity(after)])]
  /\ pc' = [pc EXCEPT ![p] = "returned"]
  /\ UNCHANGED <<capacity, status, frame, clock,
                 available_ders, event_queues, unfinished_tasks, cur, allocations, next_id,
                 dequeued, allocated, exec_failed, released, outstanding, deq_order>>

\* process_event up to the suspension in _execute_event (asyncio.sleep): the
\* allocation succeeded and is held during the dwell.
ProcessAllocated(p) ==
  /\ pc[p] = "created"
  /\ LET list == FindAvailableResources(ders, cur[p].resource_requirement)
         r == AllocateResources(ders, cur[p].resource_requirement, list)
     IN /\ list # <<>>
        /\ r.success
        /\ ders' = r.ders
        /\ allocations' = [allocations EXCEPT ![p] = r.allocations]
        /\ outstanding' = [outstanding EXCEPT ![cur[p].id] = r.allocations]
  /\ allocated' = [allocated EXCEPT ![cur[p].id] = TRUE]
  /\ performance_metrics' = LogResourceState(performance_metrics, 1)
  /\ pc' = [pc EXCEPT ![p] = "executing"]
  /\ UNCHANGED <<capacity, status, frame, clock,
                 available_ders, event_queues, unfinished_tasks, cur, next_id,
                 dequeued, exec_failed, released, resolved, deq_order>>

\* process_event when _execute_event raises before it suspends (a duration that
\* is no number): the error is caught at line 224, _execute_event returns False,
\* the allocation is released and the failure recorded, all in one step.
ProcessExecuteError(p) ==
  /\ pc[p] = "created"
  /\ LET list == FindAvailableResources(ders, cur[p].resource_requirement)
         r == AllocateResources(ders, cur[p].resource_requirement, list)
         after == ReleaseResources(r.ders, r.allocations)
     IN /\ list # <<>>
        /\ r.success
        /\ ders' = after
        /\ performance_metrics' =
             RecordMetrics(LogResourceState(performance_metrics, 2), cur[p], FALSE, after)
        /\ resolved' = [resolved EXCEPT ![cur[p].id] =
                          Append(@, [success |-> FALSE, used |-> UsedCapacity(after)])]
  /\ allocated' = [allocated EXCEPT ![cur[p].id] = TRUE]
  /\ exec_failed' = [exec_failed EXCEPT ![cur[p].id] = TRUE]
  /\ released' = [released EXCEPT ![cur[p].id] = @ + 1]
  /\ pc' = [pc EXCEPT ![p] = "returned"]
  /\ UNCHANGED <<capacity, status, frame, clock,
                 available_ders, event_queues, unfinished_tasks, cur, allocations, next_id,
                 dequeued, outstanding, deq_order>>

\* process_event after the dwell: release, record success, return.
ProcessCompleted(p) ==
  /\ pc[p] = "executing"
  /\ LET after == ReleaseResources(ders, allocations[p])
     IN /\ ders' = after
        /\ performance_metrics' =
             RecordMetrics(LogResourceState(performance_metrics, 1), cur[p], TRUE, after)
        /\ resolved' = [resolved EXCEPT ![cur[p].id] =
                          Append(@, [success |-> TRUE, used |-> UsedCapacity(after)])]
  /\ released' = [released EXCEPT ![cur[p].id] = @ + 1]
  /\ outstanding' = [outstanding EXCEPT ![cur[p].id] = <<>>]
  /\ allocations' = [allocations EXCEPT ![p] = <<>>]
  /\ pc' = [pc EXCEPT ![p] = "returned"]
  /\ UNCHANGED <<capacity, status, frame, clock,
                 available_ders, event_queues, unfinished_tasks, cur, next_id,
                 dequeued, allocated, exec_failed, deq_order>>

\* A mutation of the consumer: the process_event task is not awaited, and the
\* consumer goes on to task_done() and the next round while the event dwells.
TaskDoneEarly(p) ==
  /\ pc[p] \in {"returned", "executing"}
  /\ unfinished_tasks' = [unfinished_tasks EXCEPT ![p] = @ - 1]
  /\ Round(p)
  /\ UNCHANGED <<capacity, status, frame, clock,
                 available_ders, ders, allocations, performance_metrics, next_id,
                 allocated, exec_failed, released, outstanding, resolved>>

\* priority_processor resumes from `await process_task`: task_done(), then the
\* next round.
TaskDone(p) ==
  /\ pc[p] = "returned"
  /\ unfinished_tasks' = [unfinished_tasks EXCEPT ![p] = @ - 1]
  /\ Round(p)
  /\ UNCHANGED <<capacity, status, frame, clock,
                 available_ders, ders, allocations, performance_metrics, next_id,
                 allocated, exec_failed, released, outstanding, resolved>>

\* processor_task.cancel(): gather cancels the four consumers, and each consumer
\* that awaits its process_event task cancels that task too. CancelledError is
\* raised at the suspension point and no handler catches it, so every task ends
\* where it is: a held allocation is not released, a held event not recorded.
Cancel ==
  /\ \E p \in Priorities : pc[p] # "cancelled"
  /\ pc' = [p \in Priorities |-> "cancelled"]
  /\ allocations' = [p \in Priorities |-> <<>>]
  /\ UNCHANGED <<capacity, status, frame, clock,
                 available_ders, ders, event_queues, unfinished_tasks, cur, performance_metrics,
                 next_id, history>>

ConsumerStep(p) ==
  \/ FirstRound(p)
  \/ WakeRound(p)
  \/ ProcessFailed(p)
  \/ ProcessAllocated(p)
  \/ ProcessExecuteError(p)
  \/ ProcessCompleted(p)
  \/ TaskDone(p)

Next ==
  \/ \E priority \in Priorities, timestamp \in 1..MaxTs, req \in 1..MaxReq :
       AddEvent(priority, timestamp, req)
  \/ ProcessEventsLoop
  \/ \E p \in Priorities : ConsumerStep(p)
  \/ Cancel

Spec == Init /\ [][Next]_vars

(***************************************************************************)
(* Direct calls of the engine. _find_available_resources,                  *)
(* _allocate_resources and _release_resources are called one at a time, as *)
(* a caller other than process_event does, on a fleet in any state of      *)
(* availability and of any status; the list handed to _allocate_resources  *)
(* is any list of distinct units, or the one _find_available_resources     *)
(* returns.                                                                *)
(***************************************************************************)

\* The lists of distinct units (of length at most 2).
DerLists ==
  {<<>>} \cup {<<a>> : a \in DerIds}
         \cup {<<a, b>> : <<a, b>> \in {x \in DerIds \X DerIds : x[1] # x[2]}}

EngineInit ==
  /\ ders \in [DerIds -> 0..DerCapacity]
  /\ event_queues = [p \in Priorities |-> <<>>]
  /\ unfinished_tasks = [p \in Priorities |-> 0]
  /\ pc = [p \in Priorities |-> IF p = 1 THEN "call" ELSE "none"]
  /\ \E req \in 1..MaxReq :
       cur = [p \in Priorities |->
                IF p = 1
                THEN [id |-> 1, priority |-> 1, timestamp |-> 1, resource_requirement |-> req]
                ELSE NoEvent]
  /\ allocations = [p \in Priorities |-> <<>>]
  /\ \E list \in DerLists :
       available_ders = [p \in Priorities |-> IF p = 1 THEN list ELSE <<>>]
  /\ performance_metrics =
       [response_times |-> 0,
        resource_utilization |-> 0,
        success_rates |-> [p \in Priorities |-> <<>>],
        processing_times |-> 0,
        total_events_processed |-> 0,
        resource_state_history |-> 0]
  /\ next_id = 2
  /\ dequeued = [id \in EventIds |-> 0]
  /\ allocated = [id \in EventIds |-> FALSE]
  /\ exec_failed = [id \in EventIds |-> FALSE]
  /\ released = [id \in EventIds |-> 0]
  /\ outstanding = [id \in EventIds |-> <<>>]
  /\ resolved = [id \in EventIds |-> <<>>]
  /\ deq_order = [p \in Priorities |-> <<>>]
  /\ capacity = [der \in DerIds |-> DerCapacity]
  /\ status \in [DerIds -> {"online", "offline"}]
  /\ frame = [p \in Priorities |-> NoFrame]
  /\ clock = 0

\* Lines 92-96 of process_event: the candidates are looked up; with none the
\* failure is recorded and nothing else is called.
EngineFind(p) ==
  /\ pc[p] = "call"
  /\ LET list == FindAvailableResources(ders, cur[p].resource_requirement)
     IN /\ available_ders' = [available_ders EXCEPT ![p] = list]
        /\ IF list = <<>>
           THEN /\ performance_metrics' =
                     RecordMetrics(performance_metrics, cur[p], FALSE, ders)
                /\ resolved' = [resolved EXCEPT ![cur[p].id] =
                     Append(@, [success |-> FALSE, used |-> UsedCapacity(ders)])]
                /\ pc' = [pc EXCEPT ![p] = "returned"]
           ELSE /\ pc' = [pc EXCEPT ![p] = "found"]
                /\ UNCHANGED <<performance_metrics, resolved>>
  /\ UNCHANGED <<capacity, status, frame, clock,
                 ders, event_queues, unfinished_tasks, cur, allocations, next_id,
                 dequeued, allocated, exec_failed, released, outstanding, deq_order>>

\* Lines 98-102 of process_event: _allocate_resources on the list at hand.
EngineAllocate(p) ==
  /\ pc[p] \in {"call", "found"}
  /\ LET r == AllocateResources(ders, cur[p].resource_requirement, available_ders[p])
     IN /\ ders' = r.ders
        /\ allocations' = [allocations EXCEPT ![p] = r.allocations]
        /\ outstanding' = [outstanding EXCEPT ![cur[p].id] = r.allocations]
        /\ allocated' = [allocated EXCEPT ![cur[p].id] = r.success]
        /\ IF r.success
           THEN /\ performance_metrics' = LogResourceState(performance_metrics, 1)
                /\ pc' = [pc EXCEPT ![p] = "executing"]
                /\ UNCHANGED resolved
           ELSE /\ performance_metrics' =
                     RecordMetrics(performance_metrics, cur[p], FALSE, r.ders)
                /\ resolved' = [resolved EXCEPT ![cur[p].id] =
                     Append(@, [success |-> FALSE, used |-> UsedCapacity(r.ders)])]
                /\ pc' = [pc EXCEPT ![p] = "returned"]
  /\ UNCHANGED <<capacity, status, frame, clock,
                 available_ders, event_queues, unfinished_tasks, cur, next_id,
                 dequeued, exec_failed, released, deq_order>>

\* Line 108 of process_event: _release_resources on the record returned.
EngineRelease(p) ==
  /\ pc[p] = "executing"
  /\ ders' = ReleaseResources(ders, allocations[p])
  /\ performance_metrics' = LogResourceState(performance_metrics, 1)
  /\ released' = [released EXCEPT ![cur[p].id] = @ + 1]
  /\ outstanding' = [outstanding EXCEPT ![cur[p].id] = <<>>]
  /\ allocations' = [allocations EXCEPT ![p] = <<>>]
  /\ pc' = [pc EXCEPT ![p] = "returned"]
  /\ UNCHANGED <<capacity, status, frame, clock,
                 available_ders, event_queues, unfinished_tasks, cur, next_id,
                 dequeued, allocated, exec_failed, resolved, deq_order>>

\* _release_resources called twice in a row on the record returned: the caller
\* still has the record after the first call, and nothing marks it released.
EngineReleaseTwice(p) ==
  /\ pc[p] = "executing"
  /\ ders' = ReleaseResources(ReleaseResources(ders, allocations[p]), allocations[p])
  /\ performance_metrics' = LogResourceState(performance_metrics, 2)
  /\ released' = [released EXCEPT ![cur[p].id] = @ + 2]
  /\ outstanding' = [outstanding EXCEPT ![cur[p].id] = <<>>]
  /\ pc' = [pc EXCEPT ![p] = "returned"]
  /\ UNCHANGED <<capacity, status, frame, clock,
                 available_ders, event_queues, unfinished_tasks, cur, allocations, next_id,
                 dequeued, allocated, exec_failed, resolved, deq_order>>

EngineNext ==
  \E p \in Priorities :
    \/ EngineFind(p)
    \/ EngineAllocate(p)
    \/ EngineRelease(p)
    \/ EngineReleaseTwice(p)

EngineSpec == EngineInit /\ [][EngineNext]_vars

\* Fair scheduling of the event loop: a task that can run is run.
FairSpec ==
  /\ Spec
  /\ WF_vars(ProcessEventsLoop)
  /\ \A p \in Priorities : WF_vars(ConsumerStep(p))

(***************************************************************************)
(* Properties.                                                             *)
(***************************************************************************)

TotalCapacity == SumOver([der \in DerIds |-> Capacity(der)], DerIds)

\* The amounts deducted for events and not credited back, over all events.
OutstandingTotal ==
  SumOver([id \in EventIds |-> SumAmounts(outstanding[id])], EventIds)

\* The amounts the running process_event tasks hold on unit der.
HeldOn(der) ==
  SumOver([p \in Priorities |-> AmountOn(allocations[p], der)], Priorities)

Submitted(id) == id < next_id

\* C1: in every reachable state every unit's available capacity is at least 0
\* and at most the unit's capacity.
C1_CapacityInBounds ==
  \A der \in DerIds : 0 <= ders[der] /\ ders[der] <= Capacity(der)

\* C1 witness: an allocation drained a unit to 0 while its event dwells, and an
\* earlier event has released.
C1_Witness ==
  /\ \E p \in Priorities : pc[p] = "executing" /\ allocations[p] # <<>>
  /\ \E der \in DerIds : ders[der] = 0
  /\ \E id \in EventIds : released[id] = 1

C3_AllocationAtomicity ==
  [][\A p \in Priorities :
       (pc[p] = "created" /\ pc'[p] = "executing") =>
         \A der \in DerIds :
           /\ AmountOn(allocations'[p], der) <= ders[der]
           /\ ders'[der] = ders[der] - AmountOn(allocations'[p], der)
           /\ HeldOn(der)' <= Capacity(der)]_vars

\* C3 witness: two consumers are in their dwell and both hold capacity of the
\* same unit.
C3_Witness ==
  \E p, q \in Priorities :
    /\ p # q
    /\ pc[p] = "executing" /\ pc[q] = "executing"
    /\ \E der \in DerIds :
         AmountOn(allocations[p], der) > 0 /\ AmountOn(allocations[q], der) > 0

\* C4: when an allocation fails, by the aggregate check or by the rollback after
\* the walk, every unit's available capacity is what it was before the call.
C4_RollbackCompleteness ==
  [][\A p \in Priorities :
       (pc[p] \in {"call", "found"} /\ pc'[p] = "returned") => ders' = ders]_vars

\* C4 witness: _allocate_resources failed on a list holding a unit with available
\* capacity, so the walk had deducted from it before the rollback.
C4_Witness ==
  \E p \in Priorities :
    /\ pc[p] = "returned"
    /\ resolved[cur[p].id] # <<>>
    /\ \E i \in 1..Len(available_ders[p]) : ders[available_ders[p][i]] > 0

\* C5: every event leaves a queue at most once, through the consumer of its own
\* priority, and gets at most one outcome record, made only after its dequeue.
C5_AtMostOnceResolution ==
  /\ \A id \in EventIds :
       /\ dequeued[id] <= 1
       /\ Len(resolved[id]) <= dequeued[id]
       /\ Cardinality({p \in Priorities :
                         \E i \in 1..Len(deq_order[p]) : deq_order[p][i] = id}) <= 1
  /\ \A p \in Priorities : cur[p] # NoEvent => cur[p].priority = p
  /\ performance_metrics.total_events_processed =
       SumOver([id \in EventIds |-> Len(resolved[id])], EventIds)

\* C5 witness: one event is recorded as a success and another, after an
\* execution error, as a failure.
C5_Witness ==
  \E a, b \in EventIds :
    /\ Len(resolved[a]) = 1 /\ resolved[a][1].success
    /\ Len(resolved[b]) = 1 /\ ~resolved[b][1].success /\ exec_failed[b]

\* C6: under fair scheduling every submitted event is eventually recorded as
\* completed or failed.
C6_EventualResolution ==
  \A id \in EventIds : Submitted(id) ~> (resolved[id] # <<>>)

\* C7: when _execute_event fails after a successful allocation, the allocation
\* is released once and only then the failure is recorded: the recorded
\* utilisation no longer includes the event's amounts and no amount stays
\* deducted for it.
C7_NoLeakOnExecutionError ==
  [][\A id \in EventIds :
       (~exec_failed[id] /\ exec_failed'[id]) =>
         /\ released'[id] = 1
         /\ outstanding'[id] = <<>>
         /\ Len(resolved'[id]) = 1
         /\ ~resolved'[id][1].success
         /\ resolved'[id][1].used = UsedCapacity(ders)
         /\ ders' = ders]_vars

\* C7 witness: an event failed in execution while another event holds capacity.
C7_Witness ==
  \E a, b \in EventIds :
    /\ exec_failed[a] /\ resolved[a] # <<>>
    /\ outstanding[b] # <<>>

\* The process_event task of event id has ended (returned or was cancelled).
ProcessingEnded(id) ==
  /\ dequeued[id] > 0
  /\ \A p \in Priorities : cur[p].id = id => pc[p] \in {"returned", "cancelled"}

\* C8: for every successful allocation _release_resources is called exactly
\* once by the time process_event has ended, never skipped and never twice.
C8_ReleaseExactlyOnce ==
  \A id \in EventIds :
    /\ released[id] <= 1
    /\ (allocated[id] /\ ProcessingEnded(id)) => released[id] = 1

\* C9: once the processing loop is cancelled no unit has capacity deducted for
\* an event that will never release it, and every event that held an allocation
\* is resolved.
C9_NoOrphanOnShutdown ==
  (\A p \in Priorities : pc[p] = "cancelled") =>
    \A id \in EventIds :
      /\ outstanding[id] = <<>>
      /\ allocated[id] => resolved[id] # <<>>

\* C10: within one priority class the event dequeued is the one enqueued first
\* among those waiting (ids are given in enqueue order).
C10_FifoWithinClass ==
  [][\A p \in Priorities :
       Len(deq_order'[p]) = Len(deq_order[p]) + 1 =>
         \A i \in 1..Len(event_queues[p]) :
           event_queues[p][i][2].id >= deq_order'[p][Len(deq_order'[p])]]_vars

\* A consumer of class p dequeues in this step.
Dequeues(p) == Len(deq_order'[p]) = Len(deq_order[p]) + 1

\* C11 (as claimed): whenever a higher-priority and a lower-priority event are
\* both waiting, the higher-priority one is dequeued first: no consumer dequeues
\* while an event of a higher priority waits in its queue.
C11_StrictCrossClassOrder ==
  [][\A p \in Priorities :
       Dequeues(p) => \A q \in Priorities : q < p => event_queues[q] = <<>>]_vars

\* C11 (amended): the order of dequeue is per class only. A dequeue by the
\* consumer of class p takes one event of priority p out of the queue of class p
\* and touches no other queue, whatever waits in the other queues.
C11_OrderPerClassOnly ==
  [][\A p \in Priorities :
       Dequeues(p) =>
         LET id == deq_order'[p][Len(deq_order'[p])]
         IN /\ \E i \in 1..Len(event_queues[p]) :
                 event_queues[p][i][2].id = id /\ event_queues[p][i][2].priority = p
            /\ Len(event_queues'[p]) = Len(event_queues[p]) - 1
            /\ \A i \in 1..Len(event_queues'[p]) : event_queues'[p][i][2].id # id
            /\ \A q \in Priorities \ {p} :
                 event_queues'[q] = event_queues[q] /\ deq_order'[q] = deq_order[q]]_vars

\* C11 witness: a LOW event has been dequeued while a CRITICAL event submitted
\* before it still waits in its queue.
C11_Witness ==
  /\ deq_order[NumPriorities] # <<>>
  /\ event_queues[1] # <<>>
  /\ event_queues[1][1][2].id < deq_order[NumPriorities][1]

\* C12: the consumers progress independently. While the consumer of class q is
\* suspended in an event's dwell, the consumer of any other class p can take
\* each of its steps without q moving: dequeue a waiting event, run the
\* allocation, finish its own dwell and record the outcome.
C12_PerClassIndependence ==
  \A p, q \in Priorities :
    (p # q /\ pc[q] = "executing") =>
      /\ (pc[p] \in {"ready", "sleeping"} /\ event_queues[p] # <<>>) =>
           ENABLED (ConsumerStep(p) /\ Dequeues(p) /\ pc'[q] = "executing")
      /\ pc[p] = "created" =>
           ENABLED (ConsumerStep(p) /\ pc'[p] \in {"executing", "returned"}
                                    /\ pc'[q] = "executing")
      /\ pc[p] = "executing" =>
           ENABLED (ProcessCompleted(p) /\ resolved'[cur[p].id] # <<>>
                                        /\ pc'[q] = "executing")
      /\ (pc[p] = "returned" /\ event_queues[p] # <<>>) =>
           ENABLED (TaskDone(p) /\ Dequeues(p) /\ pc'[q] = "executing")

\* C12 witness: the LOW event submitted first is still in its dwell, and the
\* CRITICAL event submitted after it has been dequeued and resolved.
C12_Witness ==
  /\ pc[NumPriorities] = "executing"
  /\ cur[NumPriorities].id = 1
  /\ released[1] = 0
  /\ deq_order[1] = <<2>>
  /\ resolved[2] # <<>>

\* C13: the steps of an allocated event come in the order allocate, dwell,
\* release, outcome recorded: the dwell starts with the allocation, the release
\* is made after the dwell (or at once, when execution fails before it
\* suspends), and the outcome is recorded after the release. A consumer dequeues
\* its next event only after the outcome of its current one is recorded, so at
\* most one event of a class is in processing.
C13_StepOrder ==
  [][/\ \A p \in Priorities :
          /\ (pc'[p] = "executing" /\ pc[p] # "executing") =>
               /\ ~allocated[cur[p].id] /\ allocated'[cur[p].id]
               /\ released'[cur[p].id] = 0
               /\ resolved'[cur[p].id] = <<>>
          /\ Dequeues(p) => (cur[p] = NoEvent \/ resolved[cur[p].id] # <<>>)
          /\ Cardinality({i \in 1..Len(deq_order'[p]) :
                            resolved'[deq_order'[p][i]] = <<>>}) <= 1
     /\ \A id \in EventIds :
          /\ released'[id] > released[id] =>
               /\ allocated'[id]
               /\ resolved[id] = <<>>
               /\ \/ \E p \in Priorities : cur[p].id = id /\ pc[p] = "executing"
                  \/ exec_failed'[id]
          /\ (resolved'[id] # resolved[id] /\ allocated'[id]) =>
               /\ released'[id] = 1
               /\ outstanding'[id] = <<>>
               /\ resolved'[id][Len(resolved'[id])].used = UsedCapacity(ders')]_vars

\* C13 witness: a consumer has dequeued two events: the first was allocated,
\* released and recorded, and the second is in its dwell.
C13_Witness ==
  \E p \in Priorities :
    /\ Len(deq_order[p]) = 2
    /\ allocated[deq_order[p][1]] /\ released[deq_order[p][1]] = 1
    /\ resolved[deq_order[p][1]] # <<>>
    /\ pc[p] = "executing" /\ cur[p].id = deq_order[p][2]

\* Event id waits in some queue.
InQueue(id, queues) ==
  \E p \in Priorities : \E i \in 1..Len(queues[p]) : queues[p][i][2].id = id

\* C14: an event whose allocation fails is recorded as failed once, at the
\* attempt; it is offered to the allocation step only once, and a resolved
\* event is never in a queue again, never dequeued again and never allocated,
\* whatever capacity comes back later.
C14_NoAutomaticRetry ==
  [][/\ \A p \in Priorities :
          (pc[p] = "created" /\ pc'[p] \in {"executing", "returned"}) =>
            /\ dequeued[cur[p].id] = 1
            /\ ~allocated[cur[p].id]
            /\ resolved[cur[p].id] = <<>>
            /\ ~allocated'[cur[p].id] =>
                 /\ pc'[p] = "returned"
                 /\ Len(resolved'[cur[p].id]) = 1
                 /\ ~resolved'[cur[p].id][1].success
     /\ \A id \in EventIds :
          resolved[id] # <<>> =>
            /\ resolved'[id] = resolved[id]
            /\ dequeued'[id] = dequeued[id]
            /\ allocated'[id] = allocated[id]
            /\ ~InQueue(id, event_queues')]_vars

\* C14 witness: an event failed in allocation and is recorded, all capacity is
\* available again, and the consumer of its class sleeps on an empty queue.
C14_Witness ==
  \E id \in EventIds, p \in Priorities :
    /\ Len(resolved[id]) = 1 /\ ~resolved[id][1].success /\ ~allocated[id]
    /\ deq_order[p] = <<id>>
    /\ pc[p] = "sleeping"
    /\ \A der \in DerIds : ders[der] = Capacity(der)
    /\ \E other \in EventIds : released[other] = 1

(***************************************************************************)
(* The engine run by parallel threads. process_event is run by one thread  *)
(* per event, and a thread can be preempted between any two reads and      *)
(* writes of DER.available_capacity: `allocation = min(                    *)
(* der.available_capacity, needed)` reads it, `der.available_capacity -=   *)
(* allocation` reads it again and then writes it, and the credits of the   *)
(* rollback and of the release read and then write it. vpp.py takes no     *)
(* lock anywhere. The scan of _find_available_resources and the two        *)
(* assignments of a release (`+=`, then the clamp) are taken as one step   *)
(* each: splitting them adds interleavings and removes none.               *)
(***************************************************************************)

\* The consumers that run as threads, one event each.
Threads == {p \in Priorities : p <= MaxEvents}

\* What no step of a thread assigns.
thread_fixed == <<event_queues, unfinished_tasks, cur, next_id, dequeued, exec_failed,
                  deq_order, capacity, status, clock>>

ThreadInit ==
  /\ capacity = [der \in DerIds |-> DerCapacity]
  /\ status = [der \in DerIds |-> "online"]
  /\ ders = [der \in DerIds |-> DerCapacity]
  /\ event_queues = [p \in Priorities |-> <<>>]
  /\ unfinished_tasks = [p \in Priorities |-> IF p \in Threads THEN 1 ELSE 0]
  /\ pc = [p \in Priorities |-> IF p \in Threads THEN "call" ELSE "none"]
  /\ \E reqs \in [Threads -> 1..MaxReq] :
       cur = [p \in Priorities |->
                IF p \in Threads
                THEN [id |-> p, priority |-> p, timestamp |-> 1,
                      resource_requirement |-> reqs[p]]
                ELSE NoEvent]
  /\ allocations = [p \in Priorities |-> <<>>]
  /\ available_ders = [p \in Priorities |-> <<>>]
  /\ performance_metrics =
       [response_times |-> 0,
        resource_utilization |-> 0,
        success_rates |-> [p \in Priorities |-> <<>>],
        processing_times |-> 0,
        total_events_processed |-> 0,
        resource_state_history |-> 0]
  /\ next_id = MaxEvents + 1
  /\ dequeued = [id \in EventIds |-> 1]
  /\ allocated = [id \in EventIds |-> FALSE]
  /\ exec_failed = [id \in EventIds |-> FALSE]
  /\ released = [id \in EventIds |-> 0]
  /\ outstanding = [id \in EventIds |-> <<>>]
  /\ resolved = [id \in EventIds |-> <<>>]
  /\ deq_order = [p \in Priorities |-> IF p \in Threads THEN <<p>> ELSE <<>>]
  /\ frame = [p \in Priorities |-> NoFrame]
  /\ clock = 0

\* Lines 92-96: the candidates are looked up; with none the failure is recorded.
ThreadFind(p) ==
  /\ pc[p] = "call"
  /\ LET list == FindAvailableResources(ders, cur[p].resource_requirement)
     IN /\ available_ders' = [available_ders EXCEPT ![p] = list]
        /\ IF list = <<>>
           THEN /\ performance_metrics' =
                     RecordMetrics(performance_metrics, cur[p], FALSE, ders)
                /\ resolved' = [resolved EXCEPT ![cur[p].id] =
                     Append(@, [success |-> FALSE, used |-> UsedCapacity(ders)])]
                /\ pc' = [pc EXCEPT ![p] = "returned"]
                /\ UNCHANGED frame
           ELSE /\ frame' = [frame EXCEPT ![p] =
                     [i |-> 1, needed |-> cur[p].resource_requirement,
                      allocation |-> 0, read |-> 0]]
                /\ pc' = [pc EXCEPT ![p] = "walk"]
                /\ UNCHANGED <<performance_metrics, resolved>>
  /\ UNCHANGED <<ders, allocations, allocated, released, outstanding, thread_fixed>>

\* Lines 149-153 and 160-170: the head of the loop of _allocate_resources. At
\* the end of the list, or with nothing more needed, the walk ends: in a
\* rollback when something is still needed, else in the dwell. Otherwise the
\* unit's available capacity is read and the allocation computed.
ThreadWalk(p) ==
  /\ pc[p] = "walk"
  /\ LET f == frame[p]
         list == available_ders[p]
     IN IF f.i > Len(list) \/ f.needed <= 0
        THEN IF f.needed > 0
             THEN /\ frame' = [frame EXCEPT ![p].i = 1]
                  /\ pc' = [pc EXCEPT ![p] = "rollback"]
                  /\ UNCHANGED <<performance_metrics, allocated, outstanding>>
             ELSE /\ frame' = [frame EXCEPT ![p].i = 1]
                  /\ pc' = [pc EXCEPT ![p] = "executing"]
                  /\ performance_metrics' = LogResourceState(performance_metrics, 1)
                  /\ allocated' = [allocated EXCEPT ![cur[p].id] = TRUE]
                  /\ outstanding' = [outstanding EXCEPT ![cur[p].id] = allocations[p]]
        ELSE LET allocation == AllocationAmount(ders[list[f.i]], f.needed)
             IN /\ IF allocation > 0
                   THEN /\ frame' = [frame EXCEPT ![p].allocation = allocation]
                        /\ pc' = [pc EXCEPT ![p] = "load"]
                   ELSE /\ frame' = [frame EXCEPT ![p].i = @ + 1]
                        /\ UNCHANGED pc
                /\ UNCHANGED <<performance_metrics, allocated, outstanding>>
  /\ UNCHANGED <<ders, allocations, available_ders, released, resolved, thread_fixed>>

\* Line 156, first half: `der.available_capacity -= allocation` reads the field.
ThreadLoad(p) ==
  /\ pc[p] = "load"
  /\ frame' = [frame EXCEPT ![p].read = ders[available_ders[p][frame[p].i]]]
  /\ pc' = [pc EXCEPT ![p] = "store"]
  /\ UNCHANGED <<ders, allocations, available_ders, performance_metrics, allocated,
                 released, outstanding, resolved, thread_fixed>>

\* Lines 156-158, second half: the difference is written, the pair recorded.
ThreadStore(p) ==
  /\ pc[p] = "store"
  /\ LET f == frame[p]
         der == available_ders[p][f.i]
     IN /\ ders' = [ders EXCEPT ![der] = f.read - f.allocation]
        /\ allocations' = [allocations EXCEPT ![p] = Append(@, <<der, f.allocation>>)]
        /\ frame' = [frame EXCEPT ![p] =
                       [i |-> f.i + 1, needed |-> f.needed - f.allocation,
                        allocation |-> 0, read |-> 0]]
  /\ pc' = [pc EXCEPT ![p] = "walk"]
  /\ UNCHANGED <<available_ders, performance_metrics, allocated, released,
                 outstanding, resolved, thread_fixed>>

\* Lines 163-166 and 100-102: the rollback loop reads the field of the next
\* pair; after the last pair the engine returns (False, []) and the failure is
\* recorded.
ThreadRollback(p) ==
  /\ pc[p] = "rollback"
  /\ IF frame[p].i > Len(allocations[p])
     THEN /\ allocations' = [allocations EXCEPT ![p] = <<>>]
          /\ performance_metrics' =
               RecordMetrics(performance_metrics, cur[p], FALSE, ders)
          /\ resolved' = [resolved EXCEPT ![cur[p].id] =
               Append(@, [success |-> FALSE, used |-> UsedCapacity(ders)])]
          /\ frame' = [frame EXCEPT ![p] = NoFrame]
          /\ pc' = [pc EXCEPT ![p] = "returned"]
     ELSE /\ frame' = [frame EXCEPT ![p].read = ders[allocations[p][frame[p].i][1]]]
          /\ pc' = [pc EXCEPT ![p] = "rollback_store"]
          /\ UNCHANGED <<allocations, performance_metrics, resolved>>
  /\ UNCHANGED <<ders, available_ders, allocated, released, outstanding, thread_fixed>>

\* Line 165, second half: `der.available_capacity += amount` writes the sum.
ThreadRollbackStore(p) ==
  /\ pc[p] = "rollback_store"
  /\ LET pair == allocations[p][frame[p].i]
     IN ders' = [ders EXCEPT ![pair[1]] = frame[p].read + pair[2]]
  /\ frame' = [frame EXCEPT ![p].i = @ + 1, ![p].read = 0]
  /\ pc' = [pc EXCEPT ![p] = "rollback"]
  /\ UNCHANGED <<allocations, available_ders, performance_metrics, allocated,
                 released, outstanding, resolved, thread_fixed>>

\* Lines 189-190 and 108-113: after the dwell the release loop reads the field
\* of the next pair; after the last pair the success is recorded.
ThreadRelease(p) ==
  /\ pc[p] = "executing"
  /\ IF frame[p].i > Len(allocations[p])
     THEN /\ allocations' = [allocations EXCEPT ![p] = <<>>]
          /\ performance_metrics' =
               RecordMetrics(LogResourceState(performance_metrics, 1), cur[p], TRUE, ders)
          /\ resolved' = [resolved EXCEPT ![cur[p].id] =
               Append(@, [success |-> TRUE, used |-> UsedCapacity(ders)])]
          /\ released' = [released EXCEPT ![cur[p].id] = @ + 1]
          /\ outstanding' = [outstanding EXCEPT ![cur[p].id] = <<>>]
          /\ frame' = [frame EXCEPT ![p] = NoFrame]
          /\ pc' = [pc EXCEPT ![p] = "returned"]
     ELSE /\ frame' = [frame EXCEPT ![p].read = ders[allocations[p][frame[p].i][1]]]
          /\ pc' = [pc EXCEPT ![p] = "release_store"]
          /\ UNCHANGED <<allocations, performance_metrics, resolved, released, outstanding>>
  /\ UNCHANGED <<ders, available_ders, allocated, thread_fixed>>

\* Lines 191-193: the sum, clamped to the capacity, is written.
ThreadReleaseStore(p) ==
  /\ pc[p] = "release_store"
  /\ LET pair == allocations[p][frame[p].i]
     IN ders' = [ders EXCEPT ![pair[1]] = Min(frame[p].read + pair[2], Capacity(pair[1]))]
  /\ frame' = [frame EXCEPT ![p].i = @ + 1, ![p].read = 0]
  /\ pc' = [pc EXCEPT ![p] = "executing"]
  /\ UNCHANGED <<allocations, available_ders, performance_metrics, allocated,
                 released, outstanding, resolved, thread_fixed>>

ThreadNext ==
  \E p \in Threads :
    \/ ThreadFind(p)
    \/ ThreadWalk(p)
    \/ ThreadLoad(p)
    \/ ThreadStore(p)
    \/ ThreadRollback(p)
    \/ ThreadRollbackStore(p)
    \/ ThreadRelease(p)
    \/ ThreadReleaseStore(p)

ThreadSpec == ThreadInit /\ [][ThreadNext]_vars

\* No thread is inside a call of the engine.
Quiescent ==
  \A p \in Priorities :
    \/ pc[p] \in {"none", "call", "returned"}
    \/ pc[p] = "executing" /\ frame[p].i = 1

\* C15: with the consumers as parallel threads whose reads and writes of a
\* unit's available capacity are separate steps, no update is lost: every unit's
\* available capacity stays between 0 and its capacity, and whenever no thread
\* is inside the engine the capacity in use equals the amounts held.
C15_ParallelAtomicity ==
  /\ \A der \in DerIds : 0 <= ders[der] /\ ders[der] <= Capacity(der)
  /\ Quiescent => UsedCapacity(ders) = OutstandingTotal

\* C16: a unit whose status is offline is never among the candidates the
\* aggregate check counts, and an allocation made on those candidates never
\* deducts from it, whatever its available capacity.
C16_OfflineExcluded ==
  [][\A p \in Priorities :
       /\ (pc[p] = "call" /\ pc'[p] = "found") =>
            \A i \in 1..Len(available_ders'[p]) : status[available_ders'[p][i]] # "offline"
       /\ (pc[p] = "found" /\ pc'[p] # "found") =>
            \A der \in DerIds : status[der] = "offline" => ders'[der] = ders[der]]_vars

\* C17: after every allocation and release the status of each touched unit
\* follows the unit state machine: a unit drained to 0 is depleted, a unit
\* deducted and left above 0 is dispatched, a unit credited by a release is
\* available ("online"), and a unit that is not offline is depleted exactly when
\* nothing of it is available.
C17_StateMachineLegality ==
  [][\A der \in DerIds :
       /\ ders'[der] < ders[der] =>
            status'[der] = IF ders'[der] = 0 THEN "depleted" ELSE "dispatched"
       /\ ders'[der] > ders[der] => status'[der] \in {"available", "online"}
       /\ status'[der] # "offline" => (status'[der] = "depleted" <=> ders'[der] = 0)]_vars

(***************************************************************************)
(* The two-unit scenario: the event loop of Spec on a fleet whose unit 1   *)
(* (A) has capacity 100 and unit 2 (B) capacity 50, both fully available,  *)
(* with events that require 160 or 120.                                    *)
(***************************************************************************)

\* The capacities of the scenario's units (a unit beyond the two has none).
ScenarioCapacity == [der \in DerIds |-> IF der = 1 THEN 100 ELSE IF der = 2 THEN 50 ELSE 0]

\* The requirements of the scenario's events.
ScenarioRequirements == {160, 120}

ScenarioInit ==
  /\ capacity = ScenarioCapacity
  /\ status = [der \in DerIds |-> "online"]
  /\ ders = ScenarioCapacity
  /\ event_queues = [p \in Priorities |-> <<>>]
  /\ unfinished_tasks = [p \in Priorities |-> 0]
  /\ pc = [p \in Priorities |-> "new"]
  /\ cur = [p \in Priorities |-> NoEvent]
  /\ allocations = [p \in Priorities |-> <<>>]
  /\ available_ders = [p \in Priorities |-> <<>>]
  /\ performance_metrics =
       [response_times |-> 0,
        resource_utilization |-> 0,
        success_rates |-> [p \in Priorities |-> <<>>],
        processing_times |-> 0,
        total_events_processed |-> 0,
        resource_state_history |-> 0]
  /\ next_id = 1
  /\ dequeued = [id \in EventIds |-> 0]
  /\ allocated = [id \in EventIds |-> FALSE]
  /\ exec_failed = [id \in EventIds |-> FALSE]
  /\ released = [id \in EventIds |-> 0]
  /\ outstanding = [id \in EventIds |-> <<>>]
  /\ resolved = [id \in EventIds |-> <<>>]
  /\ deq_order = [p \in Priorities |-> <<>>]
  /\ frame = [p \in Priorities |-> NoFrame]
  /\ clock = 0

ScenarioNext ==
  \/ \E priority \in Priorities, timestamp \in 1..MaxTs, req \in ScenarioRequirements :
       AddEvent(priority, timestamp, req)
  \/ ProcessEventsLoop
  \/ \E p \in Priorities : ConsumerStep(p)
  \/ Cancel

ScenarioSpec == ScenarioInit /\ [][ScenarioNext]_vars

\* C18: on the fully available fleet A = 100, B = 50 an event requiring 160
\* fails and changes no unit; an event requiring 120 is allocated 100 from A and
\* 20 from B, which leaves A at 0 and B at 30 during its dwell; its release
\* brings A back to 100 and B to 50.
C18_TwoUnitScenario ==
  [][\A p \in Priorities :
       /\ (pc[p] = "created" /\ pc'[p] \in {"executing", "returned"} /\ ders = ScenarioCapacity) =>
            /\ cur[p].resource_requirement = 160 =>
                 /\ pc'[p] = "returned"
                 /\ ~allocated'[cur[p].id]
                 /\ ~resolved'[cur[p].id][1].success
                 /\ ders' = ders
            /\ cur[p].resource_requirement = 120 =>
                 /\ allocated'[cur[p].id]
                 /\ pc'[p] = "executing" =>
                      /\ allocations'[p] = <<<<1, 100>>, <<2, 20>>>>
                      /\ ders'[1] = 0 /\ ders'[2] = 30
       /\ (pc[p] = "executing" /\ pc'[p] = "returned" /\ cur[p].resource_requirement = 120) =>
            /\ ders[1] = 0 /\ ders[2] = 30
            /\ ders' = ScenarioCapacity
            /\ resolved'[cur[p].id][1].success]_vars

\* C18 witness: the event requiring 120 was allocated, dwelled, released and
\* succeeded, the event requiring 160 failed, and the fleet is at 100 and 50.
C18_Witness ==
  \E p, q \in Priorities :
    /\ cur[p].resource_requirement = 120
    /\ released[cur[p].id] = 1 /\ ~exec_failed[cur[p].id]
    /\ resolved[cur[p].id] # <<>> /\ resolved[cur[p].id][1].success
    /\ cur[q].resource_requirement = 160
    /\ resolved[cur[q].id] # <<>> /\ ~resolved[cur[q].id][1].success
    /\ ders = ScenarioCapacity

(***************************************************************************)
(* Invalid requirements: the event loop of Spec with producers that also   *)
(* submit events whose resource_requirement is negative. Neither Event nor *)
(* add_event validates the field.                                          *)
(***************************************************************************)

\* The requirements submitted: a negative one and a large one.
InvalidRequirements == {-1, MaxReq}

InvalidNext ==
  \/ \E priority \in Priorities, timestamp \in 1..MaxTs, req \in InvalidRequirements :
       AddEvent(priority, timestamp, req)
  \/ ProcessEventsLoop
  \/ \E p \in Priorities : ConsumerStep(p)
  \/ Cancel

InvalidSpec == Init /\ [][InvalidNext]_vars

\* C19: an event with a negative resource requirement is a failed allocation:
\* its processing ends with the failure recorded, it is never allocated and
\* never dwells, and no unit changes.
C19_NegativeRequirementFails ==
  [][\A p \in Priorities :
       (pc[p] = "created" /\ pc'[p] \in {"executing", "returned"}
                          /\ cur[p].resource_requirement < 0) =>
         /\ pc'[p] = "returned"
         /\ ~allocated'[cur[p].id]
         /\ Len(resolved'[cur[p].id]) = 1
         /\ ~resolved'[cur[p].id][1].success
         /\ ders' = ders]_vars

(***************************************************************************)
(* Time. The scenario's event loop with the passing of time made visible:  *)
(* a period of the loop's clock elapses while the tasks are suspended in   *)
(* their sleeps. process_events_loop gathers the four consumers and        *)
(* nothing else, and no other task is created anywhere: there is no        *)
(* periodic task, so the passing of a period changes no unit.              *)
(***************************************************************************)

\* The requirement of the events: all the capacity of the scenario's fleet.
ReplenishRequirements == {150}

\* A period elapses.
PeriodElapses ==
  /\ clock < MaxClock
  /\ clock' = clock + 1
  /\ UNCHANGED <<ders, event_queues, unfinished_tasks, pc, cur, allocations, available_ders,
                 performance_metrics, next_id, history, capacity, status, frame>>

ReplenishNext ==
  \/ \E priority \in Priorities, timestamp \in 1..MaxTs, req \in ReplenishRequirements :
       AddEvent(priority, timestamp, req)
  \/ ProcessEventsLoop
  \/ \E p \in Priorities : ConsumerStep(p)
  \/ Cancel
  \/ PeriodElapses

ReplenishSpec == ScenarioInit /\ [][ReplenishNext]_vars

\* C20: at every tick of the replenishment period each unit that is not
\* offline gets the amount 10 added to its available capacity, clamped to its
\* capacity, and is available ("online") when that is above 0: a depleted unit
\* with 0 of 50 has 10 after the tick.
C20_ReplenishmentTick ==
  [][clock' = clock + 1 =>
       \A der \in DerIds :
         status[der] # "offline" =>
           /\ ders'[der] = Min(ders[der] + 10, Capacity(der))
           /\ ders'[der] > 0 => status'[der] \in {"available", "online"}]_vars

\* The number of queue entries, over all queues, that hold event id.
Waiting(id) ==
  SumOver([p \in Priorities |->
             Cardinality({i \in 1..Len(event_queues[p]) : event_queues[p][i][2].id = id})],
          Priorities)

\* C21: add_event never waits for queue space, and a submitted event is in
\* exactly one place: once in the queue of its own priority class until the
\* consumer of that class dequeues it, and in no queue afterwards; it is never
\* lost, duplicated or handed to the consumer of another class.
C21_EnqueueNeverDrops ==
  /\ \A id \in EventIds :
       Waiting(id) + dequeued[id] = IF Submitted(id) THEN 1 ELSE 0
  /\ \A p \in Priorities :
       /\ \A i \in 1..Len(event_queues[p]) : event_queues[p][i][2].priority = p
       /\ cur[p] # NoEvent =>
            /\ cur[p].priority = p
            /\ deq_order[p] # <<>> /\ deq_order[p][Len(deq_order[p])] = cur[p].id
       /\ \A q \in Priorities \ {p} :
            \A i \in 1..Len(deq_order[p]), j \in 1..Len(deq_order[q]) :
              deq_order[p][i] # deq_order[q][j]
  /\ next_id <= MaxEvents =>
       \A priority \in Priorities : ENABLED AddEvent(priority, 1, 1)

\* C21 witness: two events wait in the queue of one class, the second was put
\* while the first was still there.
C21_Witness ==
  \E p \in Priorities : Len(event_queues[p]) = 2

\* The processing loop has been cancelled: shutdown has begun.
ShutdownBegun == \A p \in Priorities : pc[p] = "cancelled"

\* C22: once shutdown has begun no new work is accepted: no event is enqueued
\* and no event is allocated.
C22_DrainingRejectsNewWork ==
  [][ShutdownBegun =>
       /\ event_queues' = event_queues
       /\ next_id' = next_id
       /\ allocated' = allocated]_vars

\* C23: a consumer dequeues only from a queue that is not empty; a consumer
\* that checks its queue and finds it empty suspends in its sleep, with nothing
\* dequeued, and leaves the sleep only by a check that finds an event: between
\* two checks of an empty queue there is always the suspension.
C23_EmptyQueueWait ==
  [][\A p \in Priorities :
       /\ Dequeues(p) => event_queues[p] # <<>>
       /\ (event_queues[p] = <<>> /\ pc[p] \in {"ready", "returned"}
                                  /\ pc'[p] \notin {pc[p], "cancelled"}) =>
            /\ pc'[p] = "sleeping"
            /\ cur'[p] = cur[p]
            /\ deq_order'[p] = deq_order[p]
       /\ (pc'[p] = "sleeping" /\ pc[p] # "sleeping") =>
            /\ event_queues[p] = <<>>
            /\ pc[p] \in {"ready", "returned"}
       /\ (pc[p] = "sleeping" /\ pc'[p] \notin {"sleeping", "cancelled"}) =>
            /\ event_queues[p] # <<>>
            /\ Dequeues(p)
            /\ pc'[p] = "created"]_vars

\* C23 witness: a consumer has resolved an event, found its queue empty and
\* sleeps, while the consumer of another class is in a dwell.
C23_Witness ==
  \E p, q \in Priorities :
    /\ pc[p] = "sleeping" /\ event_queues[p] = <<>>
    /\ deq_order[p] # <<>> /\ resolved[cur[p].id] # <<>>
    /\ pc[q] = "executing"

\* C24: for a successful allocation the units of the record are the candidates
\* in descending order of available capacity, each gives min(its available, the
\* remaining requirement), the walk stops when nothing remains, and the amounts
\* of the record sum to exactly the event's resource requirement.
C24_GreedyWalkResult ==
  [][\A p \in Priorities :
       (pc[p] = "created" /\ pc'[p] = "executing") =>
         LET rec == allocations'[p]
             req == cur[p].resource_requirement
             Remaining(i) == req - SumAmounts(SubSeq(rec, 1, i - 1))
         IN /\ SumAmounts(rec) = req
            /\ \A i \in 1..Len(rec) :
                 /\ Remaining(i) > 0
                 /\ rec[i][2] = Min(ders[rec[i][1]], Remaining(i))
                 /\ \A j \in 1..Len(rec) : i < j => ders[rec[i][1]] >= ders[rec[j][1]]
                 /\ \A der \in DerIds :
                      (\A j \in 1..Len(rec) : rec[j][1] # der) =>
                        ders[der] <= ders[rec[i][1]]]_vars

\* C25: an allocation deducts from every unit exactly the amounts of its record
\* and the release of that record credits exactly the same amounts back, so a
\* unit nothing else changed in between is back at its value before the
\* allocation; and whenever no event holds an allocation that is not released,
\* every unit's available capacity is its initial value.
C25_AllocateReleaseRoundTrip ==
  [][/\ \A p \in Priorities :
          /\ (pc[p] = "created" /\ pc'[p] = "executing") =>
               \A der \in DerIds :
                 ders'[der] = ders[der] - AmountOn(allocations'[p], der)
          /\ (pc[p] = "executing" /\ pc'[p] = "returned") =>
               \A der \in DerIds :
                 ders'[der] = ders[der] + AmountOn(allocations[p], der)
     /\ (\A id \in EventIds : outstanding'[id] = <<>>) =>
          \A der \in DerIds : ders'[der] = Capacity(der)]_vars

\* C25 witness: events of two classes were allocated, have dwelled and have both
\* released, and the fleet is back at its initial values.
C25_Witness ==
  /\ \A id \in EventIds : released[id] = 1 /\ ~exec_failed[id] /\ outstanding[id] = <<>>
  /\ \E p, q \in Priorities : p # q /\ deq_order[p] # <<>> /\ deq_order[q] # <<>>
  /\ performance_metrics.resource_state_history >= 4
  /\ \A der \in DerIds : ders[der] = Capacity(der)

\* C26: a successful allocation on the candidates _find_available_resources
\* returned touches the fewest units possible: the number of pairs of the record
\* is the smallest k such that some k units with available capacity (hence the
\* k largest) sum to at least the requirement.
C26_FewestUnitsTouched ==
  [][\A p \in Priorities :
       (pc[p] = "found" /\ pc'[p] = "executing") =>
         LET req == cur[p].resource_requirement
             Covers(k) == \E S \in SUBSET DerIds :
                            /\ Cardinality(S) = k
                            /\ \A der \in S : ders[der] > 0
                            /\ SumOver(ders, S) >= req
             n == Len(allocations'[p])
         IN /\ Covers(n)
            /\ \A k \in 0..NumDers : k < n => ~Covers(k)]_vars

\* C26 witness: the larger unit comes second in the fleet; sorted first, it
\* alone covers the requirement and the record has one pair.
C26_Witness ==
  /\ pc[1] = "executing"
  /\ available_ders[1] = <<2, 1>>
  /\ Len(allocations[1]) = 1 /\ allocations[1][1][1] = 2
  /\ cur[1].resource_requirement = DerCapacity
  /\ ders[1] > 0

\* C27: a second call of _release_resources with the same record credits every
\* amount again: each unit of the record ends at min(available + twice the
\* amount, capacity), above its value after one release whenever that value was
\* below capacity; the capacity in use is then less than what the other holders
\* hold, and available <= capacity is the only bound kept.
C27_ReleaseNotIdempotent ==
  [][\A p \in Priorities :
       (pc[p] = "executing" /\ released'[cur[p].id] = released[cur[p].id] + 2) =>
         LET once == [der \in DerIds |-> ders[der] + AmountOn(allocations[p], der)]
             others == UsedCapacity(ders) - SumAmounts(allocations[p])
         IN /\ \A der \in DerIds :
                 /\ ders'[der] = Min(once[der] + AmountOn(allocations[p], der), Capacity(der))
                 /\ ders'[der] <= Capacity(der)
                 /\ (AmountOn(allocations[p], der) > 0 /\ once[der] < Capacity(der)) =>
                      ders'[der] > once[der]
            /\ (\E der \in DerIds :
                  AmountOn(allocations[p], der) > 0 /\ once[der] < Capacity(der)) =>
                 UsedCapacity(ders') < others]_vars

\* C27 witness: a record was released twice, and a unit of the record that
\* another holder had left below capacity is now full.
C27_Witness ==
  /\ released[1] = 2
  /\ pc[1] = "returned"
  /\ \E der \in DerIds :
       /\ AmountOn(allocations[1], der) = 1
       /\ cur[1].resource_requirement = 1
       /\ ders[der] = Capacity(der)
       /\ \A other \in DerIds \ {der} : ders[other] = 0

\* C28: process_event runs the aggregate check and the deductions in one step
\* of its task, on the same values of the fleet, and no other consumer moves in
\* that step. So, for the positive requirements, whenever the check passes the
\* walk covers the requirement: the rollback branch is never taken, and every
\* allocation failure is the failure of the aggregate check, with the total
\* available below the requirement and no unit changed.
C28_CheckAndDeductAtomic ==
  [][\A p \in Priorities :
       (pc[p] = "created" /\ pc'[p] \in {"executing", "returned"}) =>
         LET req == cur[p].resource_requirement
             list == FindAvailableResources(ders, req)
         IN /\ req > 0
            /\ allocated'[cur[p].id] <=> list # <<>>
            /\ list # <<>> => AllocateResources(ders, req, list).success
            /\ ~allocated'[cur[p].id] =>
                 /\ SumOver(ders, DerIds) < req
                 /\ ders' = ders
                 /\ pc'[p] = "returned"
            /\ \A q \in Priorities \ {p} :
                 pc'[q] = pc[q] /\ allocations'[q] = allocations[q]]_vars

\* C28 witness: an event failed while units still had capacity available, less
\* in total than it required, with another event in its dwell.
C28_Witness ==
  \E p, q \in Priorities :
    /\ pc[p] = "returned"
    /\ ~allocated[cur[p].id]
    /\ resolved[cur[p].id] # <<>> /\ ~resolved[cur[p].id][1].success
    /\ \E der \in DerIds : ders[der] > 0
    /\ SumOver(ders, DerIds) < cur[p].resource_requirement
    /\ pc[q] = "executing" /\ allocations[q] # <<>>

\* C29: held capacity is never preempted. A unit's available capacity rises
\* only by the release of an event that held that amount on it, and an event's
\* deducted amounts are credited back only by its own release; the arrival of
\* an event changes no unit and no allocation; and an event whose requirement
\* exceeds the available total is failed in its own step, with no unit changed
\* and the allocations of the in-flight events untouched.
C29_NoPreemption ==
  [][/\ \A der \in DerIds :
          ders'[der] > ders[der] =>
            \E p \in Priorities :
              /\ pc[p] = "executing" /\ pc'[p] = "returned"
              /\ ders'[der] - ders[der] = AmountOn(allocations[p], der)
     /\ \A id \in EventIds :
          (outstanding[id] # <<>> /\ outstanding'[id] # outstanding[id]) =>
            \E p \in Priorities :
              cur[p].id = id /\ pc[p] = "executing" /\ pc'[p] = "returned"
     /\ next_id' # next_id =>
          ders' = ders /\ allocations' = allocations /\ outstanding' = outstanding
     /\ \A p \in Priorities :
          (pc[p] = "created" /\ pc'[p] \notin {"created", "cancelled"}
                             /\ SumOver(ders, DerIds) < cur[p].resource_requirement) =>
            /\ pc'[p] = "returned"
            /\ ~allocated'[cur[p].id]
            /\ Len(resolved'[cur[p].id]) = 1 /\ ~resolved'[cur[p].id][1].success
            /\ ders' = ders
            /\ allocations' = allocations
            /\ outstanding' = outstanding]_vars

\* C29 witness: the CRITICAL event was dequeued and failed while the LOW event
\* dwells with capacity that would have covered it.
C29_Witness ==
  /\ pc[NumPriorities] = "executing" /\ allocations[NumPriorities] # <<>>
  /\ pc[1] = "returned"
  /\ ~allocated[cur[1].id]
  /\ resolved[cur[1].id] # <<>> /\ ~resolved[cur[1].id][1].success
  /\ SumOver(ders, DerIds) < cur[1].resource_requirement
  /\ SumOver(ders, DerIds) + SumAmounts(allocations[NumPriorities])
       >= cur[1].resource_requirement

\* C30: the record a successful allocation returns names each unit at most
\* once; every amount is above 0 and at most what the unit had available before
\* the call; no unit that had nothing available is named; and every unit of the
\* record but the last one is left with nothing available.
C30_RecordShape ==
  [][\A p \in Priorities :
       (pc[p] = "created" /\ pc'[p] = "executing") =>
         LET record == allocations'[p]
             n == Len(record)
         IN /\ \A i, j \in 1..n : i # j => record[i][1] # record[j][1]
            /\ \A i \in 1..n :
                 /\ record[i][1] \in DerIds
                 /\ record[i][2] > 0
                 /\ record[i][2] <= ders[record[i][1]]
                 /\ ders[record[i][1]] > 0
                 /\ ders'[record[i][1]] = ders[record[i][1]] - record[i][2]
                 /\ i < n => ders'[record[i][1]] = 0
            /\ \A der \in DerIds :
                 (\A i \in 1..n : record[i][1] # der) => ders'[der] = ders[der]]_vars

\* C30 witness: an allocation took two units; the first of the two is drained
\* and the last keeps a remainder.
C30_Witness ==
  \E p \in Priorities :
    /\ pc[p] = "executing"
    /\ Len(allocations[p]) = 2
    /\ ders[allocations[p][1][1]] = 0
    /\ ders[allocations[p][2][1]] > 0

\* The number of outcomes filed in success_rates, all priorities together.
OutcomesFiled(pm) ==
  SumOver([p \in Priorities |-> Len(pm.success_rates[p])], Priorities)

\* C31: the outcome bookkeeping stays consistent. In every reachable state
\* total_events_processed equals the number of entries of response_times, of
\* resource_utilization and of processing_times, and the number of outcomes in
\* success_rates over all priorities; a step in which process_event returns
\* adds exactly one entry to each, the outcome going under the priority of the
\* event that returned, and no other step changes any of them.
C31_BookkeepingConsistent ==
  /\ [](/\ performance_metrics.total_events_processed = performance_metrics.response_times
        /\ performance_metrics.total_events_processed = performance_metrics.resource_utilization
        /\ performance_metrics.total_events_processed = performance_metrics.processing_times
        /\ performance_metrics.total_events_processed = OutcomesFiled(performance_metrics))
  /\ [][LET pm == performance_metrics
            returning == {p \in Priorities : pc[p] # "returned" /\ pc'[p] = "returned"}
        IN /\ Cardinality(returning) <= 1
           /\ pm'.total_events_processed = pm.total_events_processed + Cardinality(returning)
           /\ pm'.response_times = pm.response_times + Cardinality(returning)
           /\ pm'.resource_utilization = pm.resource_utilization + Cardinality(returning)
           /\ pm'.processing_times = pm.processing_times + Cardinality(returning)
           /\ \A p \in Priorities :
                IF p \in returning
                THEN /\ cur[p].priority = p
                     /\ pm'.success_rates[p] =
                          Append(pm.success_rates[p],
                                 allocated'[cur[p].id] /\ ~exec_failed'[cur[p].id])
                ELSE pm'.success_rates[p] = pm.success_rates[p]]_vars

\* C31 witness: a failed and a successful event of different priorities have
\* both been recorded.
C31_Witness ==
  /\ performance_metrics.total_events_processed = 2
  /\ \E p, q \in Priorities :
       /\ p # q
       /\ performance_metrics.success_rates[p] = <<TRUE>>
       /\ performance_metrics.success_rates[q] = <<FALSE>>

====
